---- MODULE Spec2Model ----
(***************************************************************************)
(* Model of PFXHandler (probabilistic_forecast_api_guide.ipynb, cell 2)    *)
(* and of the notebook cells that drive it (cells 25-28).                  *)
(*                                                                         *)
(* Python values are records tagged by their type in the field "py".       *)
(* A JSON object (a dict) is a function whose DOMAIN is the set of keys    *)
(* that are present.  A datetime is its position on the time line in       *)
(* seconds plus its awareness; a float with two decimals is an integer     *)
(* number of hundredths.                                                   *)
(***************************************************************************)
EXTENDS Integers, Sequences, FiniteSets, TLC

VARIABLES
    post_response,      \* notebook global bound by cell 25 (or not yet defined)
    other_response,     \* a submission the caller keeps under another name
    server_reply,       \* the last response the service put on the wire
    last_call,          \* what the most recent handler call sent and produced
    nSubmit, nRetrieve, \* handler calls made so far
    nPost, nGet,        \* HTTP requests issued so far
    res_json,           \* forecast_response.json(), the payload handed to cell 28
    forecast_df         \* what parse_response produced for res_json

vars == <<post_response, other_response, server_reply, last_call,
          nSubmit, nRetrieve, nPost, nGet, res_json, forecast_df>>

transportVars == <<post_response, other_response, server_reply, last_call,
                   nSubmit, nRetrieve, nPost, nGet>>

-----------------------------------------------------------------------------
(* Bounds of the model *)

MaxLen == 3         \* longest GHI / POAI list a payload carries
MaxJobs == 2        \* request identifiers the service hands out
MaxCalls == 3       \* handler calls of each kind in one behaviour

-----------------------------------------------------------------------------
(* Python values *)

None == [py |-> "None"]

NotDefined == [py |-> "NameError"]

Str(s) == [py |-> "str", s |-> s]

List(items) == [py |-> "list", items |-> items]

\* dict.get(key, None)
DictGet(d, key) == IF key \in DOMAIN d THEN d[key] ELSE None

\* the dict holding exactly the keys whose value in f is not the marker `absent'
AbsentKey == [py |-> "absent"]

MkDict(f) == [k \in {k2 \in DOMAIN f : f[k2] # AbsentKey} |-> f[k]]

Min2(a, b) == IF a <= b THEN a ELSE b

-----------------------------------------------------------------------------
(* datetime, timedelta, float *)

\* an ISO-8601 string: wall-clock time of day and UTC offset ("" when it has none)
IsoStr(hour, minute, second, tz) ==
    [py |-> "str", iso |-> [hour |-> hour, minute |-> minute, second |-> second, tz |-> tz]]

\* a string that is not a timestamp
NotIso == [py |-> "str", text |-> "n/a"]

IsIso(s) == s.py = "str" /\ "iso" \in DOMAIN s

TzOffsetHours(tz) == IF tz = "-05:00" THEN -5 ELSE 0

DateTime(t, aware) == [py |-> "datetime", t |-> t, aware |-> aware]

Returned(v) == [kind |-> "return", value |-> v]

Raised(e) == [kind |-> "raise", error |-> e]

\* datetime.fromisoformat: None is not a string (TypeError), a string that is
\* not ISO-8601 is a ValueError; an aware datetime is placed on the UTC time
\* line, a naive one keeps its wall-clock reading.
FromIsoFormat(s) ==
    IF s.py # "str" THEN Raised("TypeError: fromisoformat: argument must be str")
    ELSE IF ~IsIso(s) THEN Raised("ValueError: Invalid isoformat string")
    ELSE Returned(DateTime(
            ((s.iso.hour - TzOffsetHours(s.iso.tz)) * 60 + s.iso.minute) * 60 + s.iso.second,
            s.iso.tz # ""))

\* timedelta(hours=h), timedelta(minutes=m), in seconds
TimeDeltaHours(h) == h * 3600

TimeDeltaMinutes(m) == m * 60

DtAdd(dt, seconds) == DateTime(dt.t + seconds, dt.aware)

\* DtMin taking the later of the two
DtMin_Later(a, b) ==
    IF a.aware # b.aware
    THEN Raised("TypeError: can't compare offset-naive and offset-aware datetimes")
    ELSE Returned(IF b.t > a.t THEN b ELSE a)

\* min(a, b) on datetimes: comparing a naive with an aware one is a TypeError;
\* min returns its first argument unless the second is strictly smaller.
DtMin(a, b) ==
    IF a.aware # b.aware
    THEN Raised("TypeError: can't compare offset-naive and offset-aware datetimes")
    ELSE Returned(IF b.t < a.t THEN b ELSE a)

\* (a - b).total_seconds()
TotalSeconds(a, b) == a.t - b.t

RECURSIVE BitLen(_)
BitLen(n) == IF n = 0 THEN 0 ELSE 1 + BitLen(n \div 2)

\* Long division of r/3600 (r < 3600) to n more significant bits of a binary64
\* significand; yields the remainder left and the last bit produced.
RECURSIVE Significand(_, _, _, _)
Significand(r, n, last, started) ==
    IF n = 0 THEN <<r, last>>
    ELSE LET bit == IF 2 * r >= 3600 THEN 1 ELSE 0
             r2 == 2 * r - bit * 3600
             st == started \/ bit = 1
         IN  IF r = 0 THEN <<0, 0>>
             ELSE Significand(r2, IF st THEN n - 1 ELSE n, bit, st)

\* Is the binary64 quotient seconds / 3600.0 above the real quotient?
\* (round to nearest, ties to even, 53 significant bits)
QuotientRoundedUp(seconds) ==
    LET I == seconds \div 3600
        sig == Significand(seconds % 3600, 53 - BitLen(I), I % 2, I > 0)
    IN  \/ 2 * sig[1] > 3600
        \/ 2 * sig[1] = 3600 /\ sig[2] = 1

\* Round2Hours truncating instead of rounding
Round2Hours_Truncated(seconds) == seconds \div 36

\* round(seconds / 3600.0, 2), in hundredths of an hour (seconds >= 0).
\* round() rounds the exact value of the binary64 quotient: when the real
\* quotient is halfway between two hundredths (seconds % 36 = 18) the result
\* follows the representation error of the quotient, or is the even hundredth
\* when the quotient is a binary64 number (3600 = 16 * 225).
Round2Hours(seconds) ==
    LET h == seconds \div 36
        rem == seconds % 36
    IN  IF rem < 18 THEN h
        ELSE IF rem > 18 THEN h + 1
        ELSE IF seconds % 225 = 0 THEN (IF h % 2 = 0 THEN h ELSE h + 1)
        ELSE IF QuotientRoundedUp(seconds) THEN h + 1 ELSE h

-----------------------------------------------------------------------------
(* pandas *)

IsList(v) == v.py = "list"

\* pd.DataFrame(dict): the list-valued columns must all have one length
\* (else ValueError); a scalar column (a datetime, None) is repeated in every
\* row.  interval_start is always a list, so there is a list-valued column.
DataFrame(forecast_dict) ==
    LET names == DOMAIN forecast_dict
        lens == {Len(forecast_dict[k].items) : k \in {k2 \in names : IsList(forecast_dict[k2])}}
    IN  IF Cardinality(lens) # 1
        THEN Raised("ValueError: All arrays must be of the same length")
        ELSE LET n == CHOOSE l \in lens : TRUE
             IN  Returned([py |-> "DataFrame",
                           rows |-> [i \in 1..n |->
                               [k \in names |->
                                   IF IsList(forecast_dict[k])
                                   THEN forecast_dict[k].items[i]
                                   ELSE forecast_dict[k]]]])

\* MaxLenOfPresent as max(..., default=0)
MaxLenOfPresent_Default0(GHI, POAI) ==
    LET lens == {Len(v.items) : v \in {w \in {GHI, POAI} : w # None}} \cup {0}
    IN  Returned(CHOOSE l \in lens : \A m \in lens : m <= l)

\* max([len(i) for i in [GHI, POAI] if i is not None])
MaxLenOfPresent(GHI, POAI) ==
    LET lens == {Len(v.items) : v \in {w \in {GHI, POAI} : w # None}}
    IN  IF lens = {}
        THEN Raised("ValueError: max() arg is an empty sequence")
        ELSE Returned(CHOOSE l \in lens : \A m \in lens : m <= l)

-----------------------------------------------------------------------------
(* PFXHandler.parse_response *)

\* BuildTable filling the POAI column from the GHI key
BuildTable_PoaiFromGhi(first_interval_start, forecast_issue_time, Results) ==
    IF Results = None
    THEN Raised("AttributeError: 'NoneType' object has no attribute 'get'")
    ELSE
    LET GHI == DictGet(Results, "GHI")
        POAI == DictGet(Results, "GHI")
        num_forecasts == MaxLenOfPresent(GHI, POAI)
    IN  IF num_forecasts.kind = "raise" THEN num_forecasts
        ELSE
        LET interval_starts == [i \in 1..num_forecasts.value |->
                                   DtAdd(first_interval_start, TimeDeltaMinutes((i - 1) * 60))]
            interval_ends == [i \in 1..num_forecasts.value |->
                                   DtAdd(interval_starts[i], TimeDeltaMinutes(60))]
            lead_time_hours == [i \in 1..num_forecasts.value |->
                                   Round2Hours(TotalSeconds(interval_starts[i], forecast_issue_time))]
        IN  DataFrame([issue_time |-> forecast_issue_time,
                       interval_start |-> List(interval_starts),
                       interval_end |-> List(interval_ends),
                       lead_time_hours |-> List(lead_time_hours),
                       GHI |-> GHI,
                       POAI |-> POAI])

\* lines 103-117, once the two timestamps have been parsed
BuildTable(first_interval_start, forecast_issue_time, Results) ==
    IF Results = None
    THEN Raised("AttributeError: 'NoneType' object has no attribute 'get'")
    ELSE
    LET GHI == DictGet(Results, "GHI")
        POAI == DictGet(Results, "POAI")
        num_forecasts == MaxLenOfPresent(GHI, POAI)
    IN  IF num_forecasts.kind = "raise" THEN num_forecasts
        ELSE
        LET interval_starts == [i \in 1..num_forecasts.value |->
                                   DtAdd(first_interval_start, TimeDeltaMinutes((i - 1) * 60))]
            interval_ends == [i \in 1..num_forecasts.value |->
                                   DtAdd(interval_starts[i], TimeDeltaMinutes(60))]
            lead_time_hours == [i \in 1..num_forecasts.value |->
                                   Round2Hours(TotalSeconds(interval_starts[i], forecast_issue_time))]
        IN  DataFrame([issue_time |-> forecast_issue_time,
                       interval_start |-> List(interval_starts),
                       interval_end |-> List(interval_ends),
                       lead_time_hours |-> List(lead_time_hours),
                       GHI |-> GHI,
                       POAI |-> POAI])

\* ParseResponse reading the timestamps before it looks at Status
ParseResponse_TimesFirst(json) ==
    LET status == DictGet(json, "Status")
        first_interval_start == FromIsoFormat(DictGet(json, "StartTime"))
    IN  IF first_interval_start.kind = "raise" THEN first_interval_start
        ELSE
        LET api_call_time == FromIsoFormat(DictGet(json, "TimeGenerated"))
        IN  IF api_call_time.kind = "raise" THEN api_call_time
            ELSE IF status = Str("Pending") THEN Returned(None)
            ELSE
            LET forecast_issue_time ==
                    DtMin(DtAdd(first_interval_start.value, -TimeDeltaHours(4)),
                          api_call_time.value)
            IN  IF forecast_issue_time.kind = "raise" THEN forecast_issue_time
                ELSE BuildTable(first_interval_start.value,
                                forecast_issue_time.value,
                                DictGet(json, "Results"))

ParseResponse(json) ==
    LET status == DictGet(json, "Status")
    IN  IF status = Str("Pending") THEN Returned(None)
        ELSE
        LET first_interval_start == FromIsoFormat(DictGet(json, "StartTime"))
        IN  IF first_interval_start.kind = "raise" THEN first_interval_start
            ELSE
            LET api_call_time == FromIsoFormat(DictGet(json, "TimeGenerated"))
            IN  IF api_call_time.kind = "raise" THEN api_call_time
                ELSE
                LET forecast_issue_time ==
                        DtMin(DtAdd(first_interval_start.value, -TimeDeltaHours(4)),
                              api_call_time.value)
                IN  IF forecast_issue_time.kind = "raise" THEN forecast_issue_time
                    ELSE BuildTable(first_interval_start.value,
                                    forecast_issue_time.value,
                                    DictGet(json, "Results"))

-----------------------------------------------------------------------------
(* Payloads handed to parse_response *)

QuantileSet(n) == [py |-> "dict", P50 |-> n]

QuantileSets == {QuantileSet(1), QuantileSet(2)}

FieldLists == {List(items) : items \in UNION {[1..n -> QuantileSets] : n \in 0..MaxLen}}

ResultsValues ==
    {MkDict([GHI |-> g, POAI |-> p]) :
        g \in FieldLists \cup {AbsentKey}, p \in FieldLists \cup {AbsentKey}}
    \cup {AbsentKey}

Statuses == {"Pending", "Complete", "Failed"}

StartTimes ==
    {IsoStr(9, 0, 0, "Z"), IsoStr(4, 0, 0, "-05:00"), IsoStr(9, 0, 0, ""), NotIso, AbsentKey}

TimesGenerated ==
    {IsoStr(2, 0, 0, "Z"), IsoStr(1, 59, 42, "Z"), IsoStr(4, 50, 0, "Z"),
     IsoStr(6, 30, 0, "Z"), IsoStr(1, 30, 0, "-05:00"), IsoStr(2, 0, 0, ""),
     NotIso, AbsentKey}

Payloads ==
    {MkDict([Status |-> Str(s), StartTime |-> st, TimeGenerated |-> tg, Results |-> r]) :
        s \in Statuses, st \in StartTimes, tg \in TimesGenerated, r \in ResultsValues}

-----------------------------------------------------------------------------
(* PFXHandler: create_headers, post_request, get_request *)

pfx_url == "https://service.solaranywhere.com/api/v2/ProbabilisticForecast"

api_key == "api-key"

CreateHeaders ==
    [Accept |-> "application/json", AcceptCharset |-> "utf-8",
     ContentType |-> "application/json", XApiKey |-> api_key]

JsonDumps(body) == [py |-> "str", json |-> body]

Response(status_code, json) == [py |-> "Response", status_code |-> status_code, json |-> json]

\* requests.request raising instead of returning a response
ConnectionError == [py |-> "ConnectionError"]

\* what requests.request(...) yields for the reply the service gave
Transport(reply) ==
    IF reply = ConnectionError THEN Raised("ConnectionError") ELSE Returned(reply)

\* f"{value}"
Format(value) == IF value = None THEN "None" ELSE value.s

PostRequest(request_body, reply) ==
    [sent |-> <<[method |-> "POST", url |-> <<pfx_url>>, headers |-> CreateHeaders,
                 data |-> JsonDumps(request_body)]>>,
     outcome |-> Transport(reply)]

\* GetRequest polling once more when the result is still Pending
GetRequest_Repoll(post_request_response, global_post_response, reply) ==
    IF global_post_response = NotDefined
    THEN [sent |-> <<>>, outcome |-> Raised("NameError: name 'post_response' is not defined")]
    ELSE IF global_post_response.status_code # 200
    THEN [sent |-> <<>>, outcome |-> Raised("AssertionError: Post request status code was not 200")]
    ELSE LET post_json == global_post_response.json
             request_id == DictGet(post_json, "ProbabilisticForecastRequestId")
             url == <<pfx_url, "Result/", Format(request_id)>>
             get == [method |-> "GET", url |-> url, headers |-> CreateHeaders,
                     data |-> JsonDumps(<<>>)]
         IN  [sent |-> IF reply # ConnectionError /\ DictGet(reply.json, "Status") = Str("Pending")
                       THEN <<get, get>> ELSE <<get>>,
              outcome |-> Transport(reply)]

\* post_request_response is the parameter; global_post_response is what the
\* name post_response, which the body reads, is bound to in the notebook's
\* global namespace.
GetRequest(post_request_response, global_post_response, reply) ==
    IF global_post_response = NotDefined
    THEN [sent |-> <<>>, outcome |-> Raised("NameError: name 'post_response' is not defined")]
    ELSE IF global_post_response.status_code # 200
    THEN [sent |-> <<>>, outcome |-> Raised("AssertionError: Post request status code was not 200")]
    ELSE LET post_json == global_post_response.json
             request_id == DictGet(post_json, "ProbabilisticForecastRequestId")
             url == <<pfx_url, "Result/", Format(request_id)>>
         IN  [sent |-> <<[method |-> "GET", url |-> url, headers |-> CreateHeaders,
                          data |-> JsonDumps(<<>>)]>>,
              outcome |-> Transport(reply)]

-----------------------------------------------------------------------------
(* The service and the caller's inputs *)

JobIds == {Str(ToString(n)) : n \in 1..MaxJobs}

PostReplies ==
    {Response(sc, MkDict([ProbabilisticForecastRequestId |-> id, Status |-> Str("Submitted")])) :
        sc \in {200, 401}, id \in JobIds \cup {AbsentKey}}
    \cup {ConnectionError}

GetReplies ==
    {Response(200, [Status |-> Str(s)]) : s \in Statuses}
    \cup {Response(404, [Message |-> Str("not found")]), ConnectionError}

RequestBodies == {[OutputFields |-> f] : f \in {{"GHI"}, {"POAI"}, {"GHI", "POAI"}}}

NoCall == [op |-> "none"]

Call(op, arg, r) == [op |-> op, arg |-> arg, sent |-> r.sent, outcome |-> r.outcome]

CountMethod(sent, method) == Cardinality({i \in 1..Len(sent) : sent[i].method = method})

-----------------------------------------------------------------------------
(* Notebook cells and caller steps *)

\* post_response = pfx_handler.post_request(post_request_body)
Cell25(body, reply) ==
    /\ nSubmit < MaxCalls
    /\ LET r == PostRequest(body, reply)
       IN  /\ post_response' = IF r.outcome.kind = "return" THEN r.outcome.value ELSE post_response
           /\ last_call' = Call("post_request", body, r)
           /\ nPost' = nPost + CountMethod(r.sent, "POST")
           /\ nGet' = nGet + CountMethod(r.sent, "GET")
    /\ server_reply' = reply
    /\ nSubmit' = nSubmit + 1
    /\ UNCHANGED <<other_response, nRetrieve, res_json, forecast_df>>

\* the same call with its result kept under another name
SubmitOther(body, reply) ==
    /\ nSubmit < MaxCalls
    /\ LET r == PostRequest(body, reply)
       IN  /\ other_response' = IF r.outcome.kind = "return" THEN r.outcome.value ELSE other_response
           /\ last_call' = Call("post_request", body, r)
           /\ nPost' = nPost + CountMethod(r.sent, "POST")
           /\ nGet' = nGet + CountMethod(r.sent, "GET")
    /\ server_reply' = reply
    /\ nSubmit' = nSubmit + 1
    /\ UNCHANGED <<post_response, nRetrieve, res_json, forecast_df>>

\* get_request(submission), called where the global post_response is as it is
Retrieve(submission, reply) ==
    /\ nRetrieve < MaxCalls
    /\ LET r == GetRequest(submission, post_response, reply)
       IN  /\ last_call' = Call("get_request", submission, r)
           /\ nPost' = nPost + CountMethod(r.sent, "POST")
           /\ nGet' = nGet + CountMethod(r.sent, "GET")
           /\ server_reply' = IF r.sent # <<>> THEN reply ELSE server_reply
    /\ nRetrieve' = nRetrieve + 1
    /\ UNCHANGED <<post_response, other_response, nSubmit, res_json, forecast_df>>

\* forecast_response = pfx_handler.get_request(post_response)
Cell26(reply) ==
    /\ post_response # NotDefined
    /\ Retrieve(post_response, reply)

\* the same call on the submission kept under the other name
RetrieveOther(reply) ==
    /\ other_response # NotDefined
    /\ Retrieve(other_response, reply)

\* forecast_df = pfx_handler.parse_response(forecast_response.json())
\* forecast_df here holds the outcome of the call: the value returned, or the
\* exception that left the cell.
Cell28 ==
    /\ forecast_df = NotDefined
    /\ forecast_df' = ParseResponse(res_json)
    /\ UNCHANGED <<res_json>>
    /\ UNCHANGED transportVars

-----------------------------------------------------------------------------
(* Specifications *)

InitTransport ==
    /\ post_response = NotDefined
    /\ other_response = NotDefined
    /\ server_reply = NotDefined
    /\ last_call = NoCall
    /\ nSubmit = 0 /\ nRetrieve = 0 /\ nPost = 0 /\ nGet = 0

\* submit / retrieve, with no payload parsed
Init ==
    /\ InitTransport
    /\ res_json = NotDefined
    /\ forecast_df = NotDefined

Next ==
    \/ \E body \in RequestBodies, reply \in PostReplies : Cell25(body, reply)
    \/ \E body \in RequestBodies, reply \in PostReplies : SubmitOther(body, reply)
    \/ \E reply \in GetReplies : Cell26(reply)
    \/ \E reply \in GetReplies : RetrieveOther(reply)

Spec == Init /\ [][Next]_vars

\* parse_response applied to every payload
ParseInit ==
    /\ InitTransport
    /\ res_json \in Payloads
    /\ forecast_df = NotDefined

ParseNext == Cell28

ParseSpec == ParseInit /\ [][ParseNext]_vars

-----------------------------------------------------------------------------
(* Vocabulary of the properties *)

Parsed == forecast_df # NotDefined

IsTable == Parsed /\ forecast_df.kind = "return" /\ forecast_df.value # None

Rows == forecast_df.value.rows

NotPending == DictGet(res_json, "Status") # Str("Pending")

StartTimeOf(json) == FromIsoFormat(DictGet(json, "StartTime"))

TimeGeneratedOf(json) == FromIsoFormat(DictGet(json, "TimeGenerated"))

\* a payload of the data model: two instants on one time line and a Results object
WellFormed(json) ==
    /\ StartTimeOf(json).kind = "return"
    /\ TimeGeneratedOf(json).kind = "return"
    /\ StartTimeOf(json).value.aware = TimeGeneratedOf(json).value.aware
    /\ "Results" \in DOMAIN json

FieldOf(json, F) ==
    IF "Results" \in DOMAIN json THEN DictGet(json["Results"], F) ELSE None

NumIntervals(json) ==
    LET lens == {Len(FieldOf(json, F).items) : F \in {G \in {"GHI", "POAI"} : FieldOf(json, G) # None}}
    IN  CHOOSE l \in lens : \A m \in lens : m <= l

LeadSeconds(row) == row.interval_start.t - row.issue_time.t

Abs(x) == IF x < 0 THEN -x ELSE x

Retrieved == last_call.op = "get_request"

Submitted == last_call.op = "post_request"

IdKey == "ProbabilisticForecastRequestId"

-----------------------------------------------------------------------------
(* Properties *)

\* C1: a retrieve call on a submission whose HTTP status is not 200 fails
\* and issues no GET.
C1_Non200FailsWithoutGet ==
    (Retrieved /\ last_call.arg.status_code # 200)
        => (last_call.outcome.kind = "raise" /\ last_call.sent = <<>>)

\* C2: whenever retrieve issues a GET, the submission passed to that call has
\* status 200 and the GET targets the result endpoint followed by the
\* identifier in that submission's body.
C2_RetrieveUsesItsArgument ==
    (Retrieved /\ last_call.sent # <<>>)
        => /\ last_call.arg.status_code = 200
           /\ last_call.sent[1].url =
                  <<pfx_url, "Result/", Format(DictGet(last_call.arg.json, IdKey))>>

\* C3: a retrieve call on a status-200 submission whose body has no job
\* identifier fails and issues no GET.
C3_MissingIdentifierFails ==
    (Retrieved /\ last_call.arg.status_code = 200 /\ IdKey \notin DOMAIN last_call.arg.json)
        => (last_call.outcome.kind = "raise" /\ last_call.sent = <<>>)

\* C4: for a payload whose Status is "Pending", parse_response returns None
\* (no table, no error) whatever else the payload holds.
C4_PendingReturnsNone ==
    (Parsed /\ ~NotPending) => forecast_df = Returned(None)

C4_Witness ==
    /\ Parsed
    /\ ~NotPending
    /\ "StartTime" \notin DOMAIN res_json
    /\ DictGet(res_json, "TimeGenerated") = NotIso
    /\ "Results" \notin DOMAIN res_json
    /\ forecast_df = Returned(None)

\* C5: for a non-Pending well-formed payload with GHI or POAI present,
\* parse_response returns a table with max(len(GHI), len(POAI)) rows, each one
\* hour wide, contiguous, the first starting at StartTime.
C5_RowsAreMaxLength ==
    (Parsed /\ NotPending /\ WellFormed(res_json)
        /\ (FieldOf(res_json, "GHI") # None \/ FieldOf(res_json, "POAI") # None))
        => /\ IsTable
           /\ Len(Rows) = NumIntervals(res_json)
           /\ \A i \in 1..Len(Rows) :
                 /\ Rows[i].interval_end.t - Rows[i].interval_start.t = 3600
                 /\ i = 1 => Rows[i].interval_start = StartTimeOf(res_json).value
                 /\ i < Len(Rows) => Rows[i + 1].interval_start = Rows[i].interval_end

\* C6: for a non-Pending payload with neither GHI nor POAI, parse_response
\* raises and returns no table; on a well-formed payload the error is the one
\* raised for the empty set of output fields.
C6_NoOutputFieldsFails ==
    (Parsed /\ NotPending
        /\ FieldOf(res_json, "GHI") = None /\ FieldOf(res_json, "POAI") = None)
        => /\ forecast_df.kind = "raise"
           /\ WellFormed(res_json)
                 => forecast_df = Raised("ValueError: max() arg is an empty sequence")

C6_Witness ==
    /\ Parsed
    /\ NotPending
    /\ WellFormed(res_json)
    /\ DOMAIN res_json["Results"] = {}
    /\ forecast_df = Raised("ValueError: max() arg is an empty sequence")

\* C7: in every table, issue_time of every row is min(StartTime - 4h,
\* TimeGenerated): TimeGenerated when that is earlier than StartTime - 4h,
\* StartTime - 4h otherwise.
C7_IssueTimeIsMin ==
    IsTable =>
        LET st == StartTimeOf(res_json).value.t
            tg == TimeGeneratedOf(res_json).value.t
        IN  \A i \in 1..Len(Rows) :
               /\ Rows[i].issue_time.t = Min2(st - 4 * 3600, tg)
               /\ tg < st - 4 * 3600 => Rows[i].issue_time.t = tg
               /\ tg >= st - 4 * 3600 => Rows[i].issue_time.t = st - 4 * 3600

\* StartTime 09:00Z, TimeGenerated 02:00Z, GHI of length 3
C7_Witness ==
    /\ IsTable
    /\ DictGet(res_json, "StartTime") = IsoStr(9, 0, 0, "Z")
    /\ DictGet(res_json, "TimeGenerated") = IsoStr(2, 0, 0, "Z")
    /\ Len(Rows) = 3
    /\ \A i \in 1..3 :
          /\ Rows[i].issue_time = DateTime(2 * 3600, TRUE)
          /\ Rows[i].interval_start = DateTime((8 + i) * 3600, TRUE)
          /\ Rows[i].lead_time_hours = (6 + i) * 100

\* C8 (as stated): lead_time_hours[i] is (interval_start[i] - issue_time) in
\* hours rounded to 2 decimals, and lead_time_hours[i+1] = lead_time_hours[i] + 1.
C8_LeadTimeStepsByOne ==
    IsTable =>
        \A i \in 1..Len(Rows) :
           /\ Abs(36 * Rows[i].lead_time_hours - LeadSeconds(Rows[i])) <= 18
           /\ i < Len(Rows) => Rows[i + 1].lead_time_hours = Rows[i].lead_time_hours + 100

\* C8 (amended): lead_time_hours[i] is (interval_start[i] - issue_time) in
\* hours rounded to the nearest hundredth; consecutive rows differ by 1 hour
\* to within 0.01, and by exactly 1 unless the lead time lies halfway between
\* two hundredths (a number of seconds that is 18 modulo 36).
C8_LeadTimeRounded ==
    IsTable =>
        \A i \in 1..Len(Rows) :
           /\ Abs(36 * Rows[i].lead_time_hours - LeadSeconds(Rows[i])) <= 18
           /\ i < Len(Rows) =>
                 /\ Abs(Rows[i + 1].lead_time_hours - Rows[i].lead_time_hours - 100) <= 1
                 /\ LeadSeconds(Rows[i]) % 36 # 18
                       => Rows[i + 1].lead_time_hours = Rows[i].lead_time_hours + 100

\* 7 h 0 min 18 s is 7.005 h: 7.0, then 8.01
C8_Witness ==
    /\ IsTable
    /\ Len(Rows) >= 2
    /\ LeadSeconds(Rows[1]) = 25218
    /\ Rows[1].lead_time_hours = 700
    /\ Rows[2].lead_time_hours = 801

\* C9: in every table, a field present in Results appears row by row in
\* payload order, and a field absent from Results is None in every row.
C9_FieldsCarried ==
    IsTable =>
        \A F \in {"GHI", "POAI"} :
           IF FieldOf(res_json, F) # None
           THEN /\ Len(Rows) = Len(FieldOf(res_json, F).items)
                /\ \A i \in 1..Len(Rows) : Rows[i][F] = FieldOf(res_json, F).items[i]
           ELSE \A i \in 1..Len(Rows) : Rows[i][F] = None

C9_Witness ==
    /\ IsTable
    /\ FieldOf(res_json, "GHI") = None
    /\ FieldOf(res_json, "POAI") = List(<<QuantileSet(2), QuantileSet(1)>>)
    /\ Len(Rows) = 2
    /\ Rows[1].POAI = QuantileSet(2) /\ Rows[2].POAI = QuantileSet(1)
    /\ Rows[1].GHI = None /\ Rows[2].GHI = None

\* C10: a submit call issues exactly one POST and returns the service's
\* response as it is, whatever its status; a retrieve call issues at most one
\* GET and returns that one response, whatever its Status; over any run there
\* is one POST per submit call and at most one GET per retrieve call.
C10_SingleSnapshot ==
    /\ Submitted =>
          /\ Len(last_call.sent) = 1
          /\ last_call.sent[1].method = "POST"
          /\ server_reply # ConnectionError => last_call.outcome = Returned(server_reply)
    /\ Retrieved =>
          /\ Len(last_call.sent) <= 1
          /\ \A i \in 1..Len(last_call.sent) : last_call.sent[i].method = "GET"
          /\ last_call.outcome.kind = "return" =>
                (Len(last_call.sent) = 1 /\ last_call.outcome.value = server_reply)
    /\ nPost = nSubmit
    /\ nGet <= nRetrieve

\* a 401 submission was returned as it is, and a Pending snapshot came back
\* from exactly one GET
C10_Witness ==
    /\ other_response # NotDefined
    /\ other_response.status_code = 401
    /\ Retrieved
    /\ last_call.outcome = Returned(Response(200, [Status |-> Str("Pending")]))
    /\ Len(last_call.sent) = 1
    /\ nGet = 1 /\ nRetrieve = 1

====
